---------------------------- MODULE Spec2Model ----------------------------
(***************************************************************************)
(* Model of the Telegram AI agent's conversation loop (handlers.py,        *)
(* utils.py, config.py): the chat handler's two-phase protocol, the tool   *)
(* dispatcher, the streaming presenter, the photo/sticker handler and the  *)
(* reset command, for one user.                                            *)
(*                                                                         *)
(* Texts are sequences of tokens.  A token is one character of the text,   *)
(* except that a think marker, a quoted string literal and the JSON atom   *)
(* true are each one token.                                                *)
(***************************************************************************)
EXTENDS Naturals, Sequences, FiniteSets, TLC

\* ------------------------------------------------------------------ tokens

TO == "<think>"
TC == "</think>"
SP == " "
\* two pieces of text that spell the opening marker when they stand side by side
THI == "<thi"
NK == "nk>"
\* the double-quote character
QUOTE == "\""

\* double-quoted string literals the JSON decoder accepts
DQ_TOOL_NAME == "\"tool_name\""
DQ_TIME == "\"get_current_time\""
DQ_WEATHER == "\"get_current_weather\""
DQ_NEWS == "\"get_news_headlines\""
DQ_TODO == "\"add_todo\""
DQ_NOPE == "\"no_such_tool\""
DQ_X == "\"x\""
\* the same literals in the single-quote dialect
SQ_TOOL_NAME == "'tool_name'"
SQ_TIME == "'get_current_time'"

DQLits == {DQ_TOOL_NAME, DQ_TIME, DQ_WEATHER, DQ_NEWS, DQ_TODO, DQ_NOPE, DQ_X}

\* the content of a string literal
LitName(tok) ==
    CASE tok = DQ_TOOL_NAME -> "tool_name"
      [] tok = DQ_TIME -> "get_current_time"
      [] tok = DQ_WEATHER -> "get_current_weather"
      [] tok = DQ_NEWS -> "get_news_headlines"
      [] tok = DQ_TODO -> "add_todo"
      [] tok = DQ_NOPE -> "no_such_tool"
      [] OTHER -> "x"

\* JSON atoms: valid for json.JSONDecoder, not Python literals
JsonAtoms == {"true"}

\* ------------------------------------------------------- program constants

MAX_ROUNDS == 12
CHUNK == 10

PLACEHOLDER == <<".", ".", ".">>
FALLBACK == <<"(fallback)">>
APOLOGY_PARSE == <<"(apology: said something wrong)">>
APOLOGY_SEND == <<"(apology: problem replying)">>
PHOTO_MSG == <<"(sent a photo)">>
STICKER_MSG == <<"(sent a sticker)">>
PHOTO_ERROR == <<"(error processing image)">>
UNSUPPORTED_STICKER == <<"(animated stickers unsupported)">>
TOO_LARGE == <<"(file too large)">>
MODEL_SHOWN == <<"(current model and usage)">>
MODEL_SET == <<"(model switched)">>
DEFAULT_PERSONA == <<"(default persona)">>
DEFAULT_MODEL == "(default model)"
\* what add_todo is asked to store
ITEM == "(item)"
RESET_DONE == <<"(history cleared)">>

TOOL_REGISTRY ==
    {"get_current_time", "get_current_weather", "search_web",
     "get_news_headlines", "add_todo", "list_todos", "recommend_music"}

\* asyncio.iscoroutinefunction(tool_function): the one async def of the registry
IsCoroutineFunction(tool_name) == tool_name = "get_current_weather"

\* ---------------------------------------------------------- text functions

Min(a, b) == IF a <= b THEN a ELSE b

\* s[i:] (1-based i)
From(s, i) == SubSeq(s, i, Len(s))

\* index of the first TC at or after i, 0 when there is none
RECURSIVE FindClose(_, _)
FindClose(s, i) ==
    IF i > Len(s) THEN 0
    ELSE IF s[i] = TC THEN i
    ELSE FindClose(s, i + 1)

\* the number of tokens the opening marker that starts at s[i] spans, 0 when
\* none starts there
OpenLen(s, i) ==
    IF s[i] = TO THEN 1
    ELSE IF s[i] = THI /\ i < Len(s) /\ s[i + 1] = NK THEN 2
    ELSE 0

\* re.sub(r'<think>.*?</think>', '', text, flags=re.DOTALL)
RECURSIVE StripThinkFrom(_, _)
StripThinkFrom(s, i) ==
    IF i > Len(s) THEN <<>>
    ELSE IF OpenLen(s, i) > 0 /\ FindClose(s, i + OpenLen(s, i)) # 0
         THEN StripThinkFrom(s, FindClose(s, i + OpenLen(s, i)) + 1)
    ELSE <<s[i]>> \o StripThinkFrom(s, i + 1)

StripThink(s) == StripThinkFrom(s, 1)

\* first index at or after i that holds no whitespace (Len(s)+1 when none)
RECURSIVE SkipWs(_, _)
SkipWs(s, i) ==
    IF i <= Len(s) /\ s[i] = SP THEN SkipWs(s, i + 1) ELSE i

\* re.sub(r'<think>.*?</think>\s*', '', text, flags=re.DOTALL)
RECURSIVE StripThinkWsFrom(_, _)
StripThinkWsFrom(s, i) ==
    IF i > Len(s) THEN <<>>
    ELSE IF OpenLen(s, i) > 0 /\ FindClose(s, i + OpenLen(s, i)) # 0
         THEN StripThinkWsFrom(s, SkipWs(s, FindClose(s, i + OpenLen(s, i)) + 1))
    ELSE <<s[i]>> \o StripThinkWsFrom(s, i + 1)

StripThinkWs(s) == StripThinkWsFrom(s, 1)

\* str.strip()
RECURSIVE RStrip(_)
RStrip(s) ==
    IF s # <<>> /\ s[Len(s)] = SP THEN RStrip(SubSeq(s, 1, Len(s) - 1)) ELSE s

Strip(s) == RStrip(From(s, SkipWs(s, 1)))

\* a split that keeps the full fragments only
Chunks_FullOnly(s) ==
    [k \in 1..(Len(s) \div CHUNK) |-> SubSeq(s, (k - 1) * CHUNK + 1, k * CHUNK)]

\* [text[i:i+10] for i in range(0, len(text), 10)]
RECURSIVE Chunks(_)
Chunks(s) ==
    IF s = <<>> THEN <<>>
    ELSE <<SubSeq(s, 1, Min(CHUNK, Len(s)))>> \o Chunks(From(s, CHUNK + 1))

\* ''.join(fragments)
RECURSIVE Concat(_)
Concat(ss) == IF ss = <<>> THEN <<>> ELSE Head(ss) \o Concat(Tail(ss))

\* distinct characters
LETTERS ==
    <<"a", "b", "c", "d", "e", "f", "g", "h", "i", "j", "k", "l", "m",
      "n", "o", "p", "q", "r", "s", "t", "u", "v", "w", "x", "y", "z">>

\* n copies of a token
RECURSIVE Rep(_, _)
Rep(tok, n) == IF n = 0 THEN <<>> ELSE <<tok>> \o Rep(tok, n - 1)

\* text.replace("'", '"') on one token
ReplaceQuoteTok(tok) ==
    CASE tok = SQ_TOOL_NAME -> DQ_TOOL_NAME
      [] tok = SQ_TIME -> DQ_TIME
      [] tok = "'" -> "\""
      [] OTHER -> tok

ReplaceQuotes(s) == [i \in 1..Len(s) |-> ReplaceQuoteTok(s[i])]

\* ------------------------------------------------------------ JSON decoding
\* A decoded value is summarised by what the chat handler reads of it:
\*   kind     "dict", "list", "str" or "atom"
\*   hasName  (dict) the key "tool_name" is present
\*   name     (dict) the value stored under "tool_name"; (str) the string
\*   elems    (list) the summaries of its elements, in order

NoVal == [kind |-> "none", hasName |-> FALSE, name |-> "", elems |-> <<>>]
DecodeFail == [ok |-> FALSE, end |-> 0, val |-> NoVal]
DecodeOk(e, v) == [ok |-> TRUE, end |-> e, val |-> v]

Brief(v) == [kind |-> v.kind, hasName |-> v.hasName, name |-> v.name]

\* what call.get("tool_name") yields for a value stored under the key
NameOfValue(v) ==
    CASE v.kind = "str" -> v.name
      [] v.kind \in {"dict", "list"} -> "<unhashable>"
      [] OTHER -> "<atom>"

\* index of the first double quote at or after i, 0 when there is none; a
\* string literal token opens with one
RECURSIVE FindQuote(_, _)
FindQuote(s, i) ==
    IF i > Len(s) THEN 0
    ELSE IF s[i] = QUOTE \/ s[i] \in DQLits THEN i
    ELSE FindQuote(s, i + 1)

\* json.decoder.scanstring: the string that starts at s[i], a string literal
\* token or the text from a double quote to the next one.  A string that ends
\* at the opening quote of a literal token is followed by the content of that
\* token, which no decoder state accepts after a string: the decoding fails.
ScanString(s, i) ==
    IF i > Len(s) THEN DecodeFail
    ELSE IF s[i] \in DQLits
         THEN DecodeOk(i + 1, [NoVal EXCEPT !.kind = "str", !.name = LitName(s[i])])
    ELSE IF s[i] = QUOTE /\ FindQuote(s, i + 1) # 0 /\ s[FindQuote(s, i + 1)] = QUOTE
         THEN DecodeOk(FindQuote(s, i + 1) + 1,
                       [NoVal EXCEPT !.kind = "str", !.name = "<text>"])
    ELSE DecodeFail

\* json.scanner.py_make_scanner._scan_once with JSONObject and JSONArray:
\* the value that starts at s[i]; end is the index after it
RECURSIVE ScanOnce(_, _), JSONObject(_, _, _), JSONArray(_, _, _)
ScanOnce(s, i) ==
    IF i > Len(s) THEN DecodeFail
    ELSE IF s[i] \in DQLits \cup {QUOTE} THEN ScanString(s, i)
    ELSE IF s[i] \in JsonAtoms
         THEN DecodeOk(i + 1, [NoVal EXCEPT !.kind = "atom"])
    ELSE IF s[i] = "{"
         THEN LET j == SkipWs(s, i + 1)
              IN  IF j <= Len(s) /\ s[j] = "}"
                  THEN DecodeOk(j + 1, [NoVal EXCEPT !.kind = "dict"])
                  ELSE JSONObject(s, j, [NoVal EXCEPT !.kind = "dict"])
    ELSE IF s[i] = "["
         THEN LET j == SkipWs(s, i + 1)
              IN  IF j <= Len(s) /\ s[j] = "]"
                  THEN DecodeOk(j + 1, [NoVal EXCEPT !.kind = "list"])
                  ELSE JSONArray(s, j, [NoVal EXCEPT !.kind = "list"])
    ELSE DecodeFail

\* the members of an object from the key expected at s[i]
JSONObject(s, i, acc) ==
    IF ~ScanString(s, i).ok THEN DecodeFail
    ELSE LET c == SkipWs(s, ScanString(s, i).end)
         IN  IF c > Len(s) \/ s[c] # ":" THEN DecodeFail
             ELSE LET v == ScanOnce(s, SkipWs(s, c + 1))
                  IN  IF ~v.ok THEN DecodeFail
                      ELSE LET d == SkipWs(s, v.end)
                               acc2 == IF ScanString(s, i).val.name = "tool_name"
                                       THEN [acc EXCEPT !.hasName = TRUE,
                                                        !.name = NameOfValue(v.val)]
                                       ELSE acc
                           IN  IF d > Len(s) THEN DecodeFail
                               ELSE IF s[d] = "}" THEN DecodeOk(d + 1, acc2)
                               ELSE IF s[d] = ","
                                    THEN JSONObject(s, SkipWs(s, d + 1), acc2)
                               ELSE DecodeFail

\* the elements of an array from the value expected at s[i]
JSONArray(s, i, acc) ==
    LET v == ScanOnce(s, i)
    IN  IF ~v.ok THEN DecodeFail
        ELSE LET d == SkipWs(s, v.end)
                 acc2 == [acc EXCEPT !.elems = Append(@, Brief(v.val))]
             IN  IF d > Len(s) THEN DecodeFail
                 ELSE IF s[d] = "]" THEN DecodeOk(d + 1, acc2)
                 ELSE IF s[d] = "," THEN JSONArray(s, SkipWs(s, d + 1), acc2)
                 ELSE DecodeFail

\* decoder.raw_decode(text[i:])
RawDecode(s, i) == ScanOnce(s, i)

\* ','.join(slices)
RECURSIVE JoinComma(_)
JoinComma(slices) ==
    IF Len(slices) = 1 THEN slices[1]
    ELSE slices[1] \o <<",">> \o JoinComma(Tail(slices))

\* the scanning loop of extract_json_from_text: the slices found from index i
RECURSIVE ScanSlices(_, _, _)
ScanSlices(s, i, slices) ==
    IF i > Len(s) THEN slices
    ELSE IF s[i] \in {"{", "["}
         THEN LET r == RawDecode(s, i)
              IN  IF r.ok
                  THEN ScanSlices(s, r.end, Append(slices, SubSeq(s, i, r.end - 1)))
                  ELSE ScanSlices(s, i + 1, slices)
    ELSE ScanSlices(s, i + 1, slices)

\* None, the value returned when no slice is found: falsy like the empty string
None == <<>>

\* an extractor that wraps whatever it found into an array literal
extract_json_from_text_AlwaysArray(text) ==
    LET slices == ScanSlices(ReplaceQuotes(StripThink(text)), 1, <<>>)
    IN  IF slices = <<>> THEN None
        ELSE <<"[">> \o JoinComma(slices) \o <<"]">>

\* utils.py 174-206
extract_json_from_text(text) ==
    LET text_to_decode == ReplaceQuotes(StripThink(text))
        slices == ScanSlices(text_to_decode, 1, <<>>)
    IN  IF slices = <<>> THEN None
        ELSE IF Len(slices) = 1 THEN slices[1]
        ELSE <<"[">> \o JoinComma(slices) \o <<"]">>

\* ast.literal_eval: the Python literal grammar has dicts, lists and strings
\* like JSON, and no atom true
literal_eval(s) ==
    LET r == ScanOnce(s, 1)
    IN  IF r.ok /\ r.end = Len(s) + 1 /\ \A i \in 1..Len(s) : s[i] \notin JsonAtoms
        THEN r
        ELSE DecodeFail

\* handlers.py step two: the tool-call list recovered from the decision text
ParseToolCalls(model_response) ==
    LET json_str == extract_json_from_text(model_response)
    IN  IF json_str = None THEN <<>>
        ELSE LET parsed_response == literal_eval(ReplaceQuotes(json_str))
             IN  IF ~parsed_response.ok THEN <<>>
                 ELSE IF parsed_response.val.kind = "list"
                      THEN parsed_response.val.elems
                 ELSE IF parsed_response.val.kind = "dict"
                      THEN <<Brief(parsed_response.val)>>
                 ELSE <<>>

\* a validation that forgets to look at the items
ValidToolCalls_NonEmptyOnly(tool_calls) == tool_calls # <<>>

\* the condition of the tool branch
ValidToolCalls(tool_calls) ==
    /\ tool_calls # <<>>
    /\ \A i \in 1..Len(tool_calls) :
          tool_calls[i].kind = "dict" /\ tool_calls[i].hasName

\* ----------------------------------------------------------------- inputs

Call(name_tok) == <<"{", DQ_TOOL_NAME, ":", name_tok, "}">>

\* what the model backend may answer to the decision call
DecisionTexts ==
    { <<>>,                                           \* nothing at all
      <<"a", "b">>,                                   \* plain answer
      <<SP, "a", SP>>,                                \* answer inside whitespace
      <<TO, "a", TC>>,                                \* reasoning only
      PLACEHOLDER,                                    \* the answer "..."
      Rep("a", CHUNK + 1),                            \* two fragments
      Call(SQ_TIME),                                  \* one synchronous tool
      <<"[">> \o Call(DQ_WEATHER) \o <<",">> \o Call(DQ_TIME) \o <<",">>
            \o Call(DQ_WEATHER) \o <<"]">>,           \* async, sync, async
      Call(DQ_TIME) \o <<SP>> \o Call(DQ_TIME),       \* two fragments, same tool
      Call(DQ_NOPE),                                  \* unregistered tool
      <<"[">> \o Call(DQ_NOPE) \o <<",">> \o Call(DQ_WEATHER) \o <<",">>
            \o Call(DQ_NOPE) \o <<",">> \o Call(DQ_TIME) \o <<"]">>,
                                                      \* unregistered among others
      <<"{", DQ_TOOL_NAME, ":", "[", "]", "}">>,      \* a name that is a list
      <<"[">> \o Call(DQ_TIME) \o <<",", "{", DQ_X, ":", DQ_X, "}", "]">>,
                                                      \* an item without tool_name
      <<"{", DQ_TOOL_NAME, ":", "true", "}">> }       \* decodes, does not parse

\* what the model backend may stream to the grounding call (raw fragments)
GroundingReplies ==
    { <<>>,
      << <<"a", TO>>, <<"b", TC, "c">> >>,
      << Rep("a", CHUNK), <<"a">> >> }

\* what the vision model may answer to a photo or a sticker
PhotoReplies == { <<"a">>, <<TO, "a", TC, SP>> }

UserMsgs == { <<"u">> }

\* the long-run specification draws from these
HistDecisionTexts ==
    { <<"[">> \o Call(DQ_WEATHER) \o <<",">> \o Call(DQ_TIME) \o <<"]">> }
HistGroundingReplies == { << <<"a">> >> }
HistPhotoReplies == { <<"a">> }
HistUserMsgs == { <<"u">> }

\* article URLs; NO_URL stands for an article without one
NewsUrls == {"url1", "url2"}
NO_URL == ""
\* the answer of the news API when the request fails (or no key is configured)
API_ERROR == <<"(api error)">>

MaxFeed == 2
\* bounds on the tool calls handled between two resets
MaxTodos == 1
MaxNewsCalls == 3

\* what the news API may answer: the URLs of the articles, in order
NewsFeeds ==
    UNION {[1..k -> NewsUrls \cup {NO_URL}] : k \in 0..MaxFeed} \cup {API_ERROR}

\* the model names /model may be given
Models == {"m1"}

\* the specification of the per-user state draws from these
StateDecisionTexts ==
    { <<"a">>,
      <<"[">> \o Call(DQ_NEWS) \o <<",">> \o Call(DQ_NEWS) \o <<"]">>,
      <<"[">> \o Call(DQ_TODO) \o <<",">> \o Call(DQ_NEWS) \o <<"]">> }
StateGroundingReplies == { << <<"a">> >> }
StateUserMsgs == { <<"u">>, <<"v">> }

\* bounds on the turns taken between two resets
MaxStateTurns == 1
MaxTurns == 1
MaxPhotos == 1
MaxHistTurns == 13
MaxHistPhotos == 1

\* ------------------------------------------------------------------ state

VARIABLES
    user_data_keys,   \* the keys present in ctx.user_data
    history,          \* ctx.user_data["history"]: entries [role, content]
    model,            \* ctx.user_data.get("model", DEFAULT_MODEL)
    todos,            \* ctx.user_data.get("todos", [])
    seen_news_urls,   \* ctx.user_data.get("seen_news_urls", set())
    news_returned,    \* the URLs each get_news_headlines call since the last
                      \* reset returned, call by call
    chat_turns,       \* chat turns completed since the last reset
    photo_turns,      \* photo/sticker turns completed since the last reset
    pc,               \* where the running handler stands ("idle": none runs)
    user_msg,         \* update.message.text
    first_step_msgs,  \* the message list of the model calls: [role, content]
    model_response,   \* the decision call's answer
    decision_calls,   \* decision calls issued by this turn
    grounding_calls,  \* grounding calls issued by this turn
    tool_calls,       \* the tool-call list recovered from model_response
    ci,               \* dispatch loop: index of the next call
    tool_results,     \* entries [tool_call, result]
    tasks_to_run,     \* coroutines of the async calls: [call, state]
    fragments,        \* the fragment sequence handed to the presenter
    fi,               \* fragments consumed so far
    buffer,           \* presenter: accumulated text
    full_response,    \* presenter: the text after the sequence completed
    edit_success,     \* presenter: flag
    visible,          \* the text the outgoing (placeholder) message shows
    edits,            \* edit attempts of this turn: [stage, text, outcome, shown]
    fresh,            \* fresh messages sent by the running handler
    fn,               \* the text function applied on its own ("none": none is)
    fn_pc,            \* where that application stands
    ex_text,          \* extract_json_from_text: text
    ex_i,             \* extract_json_from_text: i
    ex_spans,         \* extract_json_from_text: [start, end] of each slice found
    ex_result,        \* extract_json_from_text: the value returned
    fs_stream,        \* filter_stream: the fragments of the wrapped sequence
    fs_pulled,        \* filter_stream: fragments consumed so far
    fs_full,          \* filter_stream: full_response
    fs_out,           \* filter_stream: fragments yielded so far
    ch_text,          \* the text handed to the re-chunking
    ch_out            \* the fragments it was split into

toolState == <<model, todos, seen_news_urls, news_returned>>
userVars == <<user_data_keys, history, chat_turns, photo_turns, toolState>>
callVars == <<user_msg, first_step_msgs, model_response, decision_calls, grounding_calls>>
toolVars == <<tool_calls, ci, tool_results, tasks_to_run>>
presVars == <<fragments, fi, buffer, full_response, edit_success, visible, edits, fresh>>
chatVars == <<userVars, pc, callVars, toolVars, presVars>>
textVars == <<fn, fn_pc, ex_text, ex_i, ex_spans, ex_result,
              fs_stream, fs_pulled, fs_full, fs_out, ch_text, ch_out>>
vars == <<chatVars, textVars>>

\* visible when no outgoing message exists
NoMessage == <<"(no message)">>

\* the locals of a handler that is not running
LocalsCleared ==
    /\ user_msg = <<>> /\ first_step_msgs = <<>> /\ model_response = <<>>
    /\ decision_calls = 0 /\ grounding_calls = 0
    /\ tool_calls = <<>> /\ ci = 1 /\ tool_results = <<>> /\ tasks_to_run = <<>>
    /\ fragments = <<>> /\ fi = 0 /\ buffer = <<>> /\ full_response = <<>>
    /\ edit_success = TRUE /\ visible = NoMessage /\ edits = <<>> /\ fresh = <<>>

\* no text function is applied on its own
TextIdle ==
    /\ fn = "none" /\ fn_pc = "returned"
    /\ ex_text = <<>> /\ ex_i = 1 /\ ex_spans = <<>> /\ ex_result = <<>>
    /\ fs_stream = <<>> /\ fs_pulled = 0 /\ fs_full = <<>> /\ fs_out = <<>>
    /\ ch_text = <<>> /\ ch_out = <<>>

\* the bot after start-up, before any update of the user
ChatInit ==
    /\ user_data_keys = {}
    /\ history = <<>>
    /\ model = DEFAULT_MODEL /\ todos = <<>>
    /\ seen_news_urls = {} /\ news_returned = <<>>
    /\ chat_turns = 0 /\ photo_turns = 0
    /\ pc = "idle"
    /\ LocalsCleared

Init == ChatInit /\ TextIdle

\* a history that is never trimmed
HistAppend_Unbounded(hist, entry) == Append(hist, entry)

\* a deque whose maxlen is odd
HistAppend_OddBound(hist, entry) ==
    IF Len(hist) + 1 > MAX_ROUNDS - 1 THEN Tail(Append(hist, entry)) ELSE Append(hist, entry)

\* deque(maxlen=MAX_ROUNDS).append(entry)
HistAppend(hist, entry) ==
    IF Len(hist) + 1 > MAX_ROUNDS THEN Tail(Append(hist, entry)) ELSE Append(hist, entry)

Entry(role, content) == [role |-> role, content |-> content]

\* the value executing call i of the list produces
ResultOf(i) == [tool |-> tool_calls[i].name, call |-> i]

\* ------------------------------------------------------------------ tools

\* the elements of a sequence
Range(s) == {s[k] : k \in 1..Len(s)}

\* a news tool that returns every article that has a URL
NewUrls_NoDedup(feed, i, seen) ==
    IF i > Len(feed) THEN <<>>
    ELSE SelectSeq(SubSeq(feed, i, Len(feed)), LAMBDA u : u # NO_URL)

\* tools.py 73-78: the URLs of new_articles, from article i on
RECURSIVE NewUrls(_, _, _)
NewUrls(feed, i, seen) ==
    IF i > Len(feed) THEN <<>>
    ELSE IF feed[i] # NO_URL /\ feed[i] \notin seen
         THEN <<feed[i]>> \o NewUrls(feed, i + 1, seen \cup {feed[i]})
    ELSE NewUrls(feed, i + 1, seen)

\* tools.py 60-86: the URLs of the articles get_news_headlines returns; none
\* when it returns one of its sentences
ReturnedUrls(feed, seen) ==
    IF feed = API_ERROR THEN <<>> ELSE NewUrls(feed, 1, seen)

\* the keys of ctx.user_data a synchronous tool creates
KeysCreated(tool_name, feed) ==
    CASE tool_name = "get_news_headlines" /\ feed \notin {API_ERROR, <<>>} -> {"seen_news_urls"}
      [] tool_name = "add_todo" -> {"todos"}
      [] OTHER -> {}

\* handlers.py 90-120: the assistant and tool messages of the results
ToolMessages(results) ==
    Concat([k \in 1..Len(results) |->
              <<Entry("assistant", <<"(call)", LETTERS[results[k].tool_call]>>),
                Entry("tool", <<"(result)", results[k].result.tool,
                                LETTERS[results[k].result.call]>>)>>])

\* ------------------------------------------------------------ chat: steps

\* handlers.py 24-32: a text message arrives; history is created lazily
StartChat(msgs, cap) ==
    /\ pc = "idle"
    /\ chat_turns < cap
    /\ \E m \in msgs :
         /\ user_msg' = m
         /\ first_step_msgs' = <<Entry("system", DEFAULT_PERSONA)>> \o history
                                  \o <<Entry("user", m)>>
    /\ user_data_keys' = user_data_keys \cup {"history"}
    /\ pc' = "decision"
    /\ UNCHANGED <<textVars, history, chat_turns, photo_turns, toolState, model_response,
                   decision_calls, grounding_calls, toolVars, presVars>>

\* handlers.py 129-135: text_generator(model_response)
text_generator(text) == Chunks(Strip(StripThink(text)))

\* handlers.py 35-54, 126-136: the decision call returns; the tool-call list is
\* recovered and the branch is chosen
DecisionCall(texts) ==
    /\ pc = "decision"
    /\ \E t \in texts :
         /\ model_response' = t
         /\ tool_calls' = ParseToolCalls(t)
         /\ IF ValidToolCalls(ParseToolCalls(t))
            THEN pc' = "dispatch" /\ fragments' = <<>>
            ELSE pc' = "present" /\ fragments' = text_generator(t)
    /\ decision_calls' = decision_calls + 1
    /\ ci' = 1
    /\ UNCHANGED <<textVars, userVars, user_msg, first_step_msgs, grounding_calls,
                   tool_results, tasks_to_run,
                   fi, buffer, full_response, edit_success, visible, edits, fresh>>

\* ------------------------------------------------------- chat: dispatching

CallName == tool_calls[ci].name

\* an unregistered name that ends the handler
DispatchUnregistered_Abort ==
    /\ pc = "dispatch" /\ ci <= Len(tool_calls)
    /\ CallName # "<unhashable>" /\ CallName \notin TOOL_REGISTRY
    /\ pc' = "raised"
    /\ UNCHANGED <<textVars, userVars, callVars, toolVars, presVars>>

\* handlers.py 62-66: a name absent from the registry is skipped
DispatchUnregistered ==
    /\ pc = "dispatch" /\ ci <= Len(tool_calls)
    /\ CallName # "<unhashable>" /\ CallName \notin TOOL_REGISTRY
    /\ ci' = ci + 1
    /\ UNCHANGED <<textVars, userVars, pc, callVars, tool_calls, tool_results, tasks_to_run, presVars>>

\* handlers.py 79-83: a synchronous tool runs inside the loop; tools.py 60-94:
\* get_news_headlines and add_todo write to ctx.user_data
DispatchSync(feeds) ==
    /\ pc = "dispatch" /\ ci <= Len(tool_calls)
    /\ CallName \in TOOL_REGISTRY /\ ~IsCoroutineFunction(CallName)
    /\ CallName = "add_todo" => Len(todos) < MaxTodos
    /\ CallName = "get_news_headlines" => Len(news_returned) < MaxNewsCalls
    /\ \E feed \in (IF CallName = "get_news_headlines" THEN feeds ELSE {<<>>}) :
         /\ seen_news_urls' = seen_news_urls \cup Range(ReturnedUrls(feed, seen_news_urls))
         /\ news_returned' = IF CallName = "get_news_headlines"
                              THEN Append(news_returned, ReturnedUrls(feed, seen_news_urls))
                              ELSE news_returned
         /\ user_data_keys' = user_data_keys \cup KeysCreated(CallName, feed)
    /\ todos' = IF CallName = "add_todo" THEN Append(todos, ITEM) ELSE todos
    /\ tool_results' = Append(tool_results, [tool_call |-> ci, result |-> ResultOf(ci)])
    /\ ci' = ci + 1
    /\ UNCHANGED <<textVars, history, chat_turns, photo_turns, model, pc, callVars,
                   tool_calls, tasks_to_run, presVars>>

\* an async tool scheduled at once, as asyncio.create_task would
DispatchAsync_Task ==
    /\ pc = "dispatch" /\ ci <= Len(tool_calls)
    /\ CallName \in TOOL_REGISTRY /\ IsCoroutineFunction(CallName)
    /\ tasks_to_run' = Append(tasks_to_run, [call |-> ci, state |-> "running"])
    /\ ci' = ci + 1
    /\ UNCHANGED <<textVars, userVars, pc, callVars, tool_calls, tool_results, presVars>>

\* handlers.py 73-78: calling an async tool creates its coroutine, not yet started
DispatchAsync ==
    /\ pc = "dispatch" /\ ci <= Len(tool_calls)
    /\ CallName \in TOOL_REGISTRY /\ IsCoroutineFunction(CallName)
    /\ tasks_to_run' = Append(tasks_to_run, [call |-> ci, state |-> "created"])
    /\ ci' = ci + 1
    /\ UNCHANGED <<textVars, userVars, pc, callVars, tool_calls, tool_results, presVars>>

\* handlers.py 64, 71, 77, 82: the registry lookup of an unhashable name, the
\* copy or the binding of the arguments, or a synchronous tool raises: the
\* exception leaves the handler
DispatchRaise ==
    /\ pc = "dispatch" /\ ci <= Len(tool_calls)
    /\ CallName \in TOOL_REGISTRY \cup {"<unhashable>"}
    /\ pc' = "raised"
    /\ UNCHANGED <<textVars, userVars, callVars, toolVars, presVars>>

\* handlers.py 85-86: asyncio.gather starts every coroutine
Gather ==
    /\ pc = "dispatch" /\ ci > Len(tool_calls)
    /\ tasks_to_run # <<>>
    /\ tasks_to_run' = [k \in 1..Len(tasks_to_run) |->
                           [tasks_to_run[k] EXCEPT !.state = "running"]]
    /\ pc' = "gather"
    /\ UNCHANGED <<textVars, userVars, callVars, tool_calls, ci, tool_results, presVars>>

\* an async tool returns
TaskFinish ==
    /\ pc = "gather"
    /\ \E k \in 1..Len(tasks_to_run) :
         /\ tasks_to_run[k].state = "running"
         /\ tasks_to_run' = [tasks_to_run EXCEPT ![k].state = "done"]
    /\ UNCHANGED <<textVars, userVars, pc, callVars, tool_calls, ci, tool_results, presVars>>

\* an awaitable whose exception is kept as its result: the batch goes on
TaskRaise_Isolated ==
    /\ pc = "gather"
    /\ \E k \in 1..Len(tasks_to_run) :
         /\ tasks_to_run[k].state = "running"
         /\ tasks_to_run' = [tasks_to_run EXCEPT ![k].state = "raised"]
    /\ UNCHANGED <<textVars, userVars, pc, callVars, tool_calls, ci, tool_results, presVars>>

\* handlers.py 86: an async tool raises: gather re-raises at once, the others
\* keep running
TaskRaise ==
    /\ pc = "gather"
    /\ \E k \in 1..Len(tasks_to_run) :
         /\ tasks_to_run[k].state = "running"
         /\ tasks_to_run' = [tasks_to_run EXCEPT ![k].state = "raised"]
    /\ pc' = "raised"
    /\ UNCHANGED <<textVars, userVars, callVars, tool_calls, ci, tool_results, presVars>>

\* a gather that returns at the first completion
GatherDone_Any(tasks) == \E k \in 1..Len(tasks) : tasks[k].state = "done"

\* handlers.py 86: gather returns once every awaitable is done
GatherDone(tasks) == \A k \in 1..Len(tasks) : tasks[k].state = "done"

\* results paired with the calls in the opposite order
GatherResults_Reversed(tasks) ==
    [k \in 1..Len(tasks) |->
        [tool_call |-> tasks[k].call, result |-> ResultOf(tasks[Len(tasks) + 1 - k].call)]]

\* handlers.py 86-88: zip(async_calls_map, async_results)
GatherResults(tasks) ==
    [k \in 1..Len(tasks) |-> [tool_call |-> tasks[k].call, result |-> ResultOf(tasks[k].call)]]

GatherReturn ==
    /\ pc = "gather"
    /\ GatherDone(tasks_to_run)
    /\ tool_results' = tool_results \o GatherResults(tasks_to_run)
    /\ first_step_msgs' = first_step_msgs
                             \o ToolMessages(tool_results \o GatherResults(tasks_to_run))
    /\ pc' = "present"
    /\ UNCHANGED <<textVars, userVars, user_msg, model_response, decision_calls,
                   grounding_calls, tool_calls, ci, tasks_to_run, presVars>>

\* handlers.py 85, 90-124: no async call was made
NoGather ==
    /\ pc = "dispatch" /\ ci > Len(tool_calls)
    /\ tasks_to_run = <<>>
    /\ first_step_msgs' = first_step_msgs \o ToolMessages(tool_results)
    /\ pc' = "present"
    /\ UNCHANGED <<textVars, userVars, user_msg, model_response, decision_calls,
                   grounding_calls, toolVars, presVars>>

\* ---------------------------------------------------------- the presenter

\* what the transport may answer to edit_message_text(text) while the
\* message shows `shown`: "ok"; "not_modified" (BadRequest: Message is not
\* modified); "rejected" (Forbidden, or any other BadRequest, an empty text
\* among them); "error" (any other TelegramError: flood control, timeout)
EditOutcomes(text, shown) ==
    IF text = <<>> THEN {"rejected", "error"}
    ELSE IF text = shown THEN {"not_modified", "rejected", "error"}
    ELSE {"ok", "rejected", "error"}

\* what the transport may answer to the first reply_text
SendOutcomes == {"ok", "rejected", "error"}

\* how reply_safely may go: "ok"; "plain_ok" (MarkdownV2 refused, plain text
\* accepted); "plain_failed" (both refused); "bad_request" (another
\* BadRequest); "error" (any other exception, which leaves reply_safely)
ReplyOutcomes == {"ok", "plain_ok", "plain_failed", "bad_request", "error"}

\* utils.py 154-171, reply_safely(text): the messages it adds to the chat
reply_safely(text, o) ==
    IF Strip(text) = <<>> THEN <<>>
    ELSE CASE o \in {"ok", "plain_ok"} -> <<text>>
           [] o = "plain_failed" -> <<APOLOGY_PARSE>>
           [] o = "bad_request" -> <<APOLOGY_SEND>>
           [] OTHER -> <<>>

\* utils.py 92, 113: message_to_edit.text, the text of the Message object that
\* reply_text("...") returned; no edit updates that object
MessageToEditText == PLACEHOLDER

\* a filter that cleans every fragment by itself
filter_stream_PerFragment(raw) ==
    Chunks(Concat([k \in 1..Len(raw) |-> Strip(StripThink(raw[k]))]))

\* utils.py 134-151
filter_stream(raw) == Chunks(Strip(StripThink(Concat(raw))))

\* the generator handed to the presenter can yield its fragments
Ready == ~ValidToolCalls(tool_calls) \/ grounding_calls = 1

EditLog(stage, text, o) ==
    Append(edits, [stage |-> stage, text |-> text, outcome |-> o, shown |-> visible])

\* utils.py 92: the placeholder message
PresentStart ==
    /\ pc = "present"
    /\ \E o \in SendOutcomes :
         /\ pc' = CASE o = "ok" -> "stream" [] o = "rejected" -> "remedy" [] OTHER -> "raised"
         /\ visible' = IF o = "ok" THEN PLACEHOLDER ELSE visible
         /\ edit_success' = IF o = "rejected" THEN FALSE ELSE edit_success
    /\ UNCHANGED <<textVars, userVars, callVars, toolVars, fragments, fi, buffer, full_response,
                   edits, fresh>>

\* handlers.py 122-123, utils.py 140-150: the first pull of the filtered
\* generator issues the grounding call and drains its answer
GroundingCall(replies) ==
    /\ pc = "stream"
    /\ ValidToolCalls(tool_calls) /\ grounding_calls = 0
    /\ \E r \in replies : fragments' = filter_stream(r)
    /\ grounding_calls' = grounding_calls + 1
    /\ UNCHANGED <<textVars, userVars, pc, user_msg, first_step_msgs, model_response,
                   decision_calls, toolVars,
                   fi, buffer, full_response, edit_success, visible, edits, fresh>>

\* utils.py 94-109: one fragment arrives; a throttled edit may follow
StreamChunk ==
    /\ pc = "stream" /\ Ready /\ fi < Len(fragments)
    /\ LET b == buffer \o fragments[fi + 1]
       IN  /\ buffer' = b
           /\ fi' = fi + 1
           /\ \E elapsed \in BOOLEAN :
              \E o \in (IF elapsed /\ b # <<>> THEN EditOutcomes(b, visible) ELSE {"none"}) :
                /\ edits' = IF o = "none" THEN edits ELSE EditLog("throttled", b, o)
                /\ visible' = IF o = "ok" THEN b ELSE visible
                /\ edit_success' = IF o = "rejected" THEN FALSE ELSE edit_success
                /\ pc' = CASE o = "rejected" -> "remedy"
                           [] o = "error" -> "raised"
                           [] OTHER -> "stream"
    /\ UNCHANGED <<textVars, userVars, callVars, toolVars, fragments, full_response, fresh>>

\* utils.py 111-112: the sequence is exhausted
StreamEnd ==
    /\ pc = "stream" /\ Ready /\ fi = Len(fragments)
    /\ full_response' = buffer
    /\ pc' = "final"
    /\ UNCHANGED <<textVars, userVars, callVars, toolVars, fragments, fi, buffer, edit_success,
                   visible, edits, fresh>>

\* utils.py 113-122: the final edit
FinalEdit ==
    /\ pc = "final"
    /\ \E o \in (IF MessageToEditText # full_response
                 THEN EditOutcomes(full_response, visible) ELSE {"none"}) :
         /\ edits' = IF o = "none" THEN edits ELSE EditLog("final", full_response, o)
         /\ visible' = IF o = "ok" THEN full_response ELSE visible
         /\ edit_success' = IF o \in {"rejected", "not_modified"} THEN FALSE ELSE edit_success
         /\ pc' = IF o = "error" THEN "raised" ELSE "remedy"
    /\ UNCHANGED <<textVars, userVars, callVars, toolVars, fragments, fi, buffer, full_response, fresh>>

\* utils.py 126-132: the remedial send, then the return to the chat handler
Remedy ==
    /\ pc = "remedy"
    /\ \E o \in (IF ~edit_success /\ full_response # <<>> THEN ReplyOutcomes ELSE {"none"}) :
         /\ fresh' = IF o = "none" THEN fresh ELSE fresh \o reply_safely(full_response, o)
         /\ pc' = IF o = "error" THEN "raised" ELSE "store"
    /\ UNCHANGED <<textVars, userVars, callVars, toolVars, fragments, fi, buffer, full_response,
                   edit_success, visible, edits>>

\* utils.py 132: return full_response or buffer
PresenterReturn == IF full_response # <<>> THEN full_response ELSE buffer

\* a chat handler that stores whatever the presenter returned
FinalReply_Raw(reply) == reply

\* handlers.py 139-140
FinalReply(reply) == IF reply = <<>> THEN FALLBACK ELSE reply

\* handlers.py 138-143: the turn is stored
Store ==
    /\ pc = "store"
    /\ history' = HistAppend(HistAppend(history, Entry("user", user_msg)),
                             Entry("assistant", FinalReply(PresenterReturn)))
    /\ chat_turns' = chat_turns + 1
    /\ pc' = "done"
    /\ UNCHANGED <<textVars, user_data_keys, photo_turns, toolState, callVars, toolVars,
                   presVars>>

\* the handler returns, or its exception reaches the dispatcher of updates
Return ==
    /\ pc \in {"done", "raised", "replied"}
    /\ pc' = "idle"
    /\ user_msg' = <<>> /\ first_step_msgs' = <<>> /\ model_response' = <<>>
    /\ decision_calls' = 0 /\ grounding_calls' = 0
    /\ tool_calls' = <<>> /\ ci' = 1 /\ tool_results' = <<>> /\ tasks_to_run' = <<>>
    /\ fragments' = <<>> /\ fi' = 0 /\ buffer' = <<>> /\ full_response' = <<>>
    /\ edit_success' = TRUE /\ visible' = NoMessage /\ edits' = <<>> /\ fresh' = <<>>
    /\ UNCHANGED <<textVars, userVars>>

\* ------------------------------------------------- photo, sticker, reset

\* handlers.py 148-156: an animated or video sticker, or an oversized file
PhotoRefused ==
    /\ pc = "idle"
    /\ \E is_sticker \in BOOLEAN :
       \E refusal \in (IF is_sticker THEN {UNSUPPORTED_STICKER, TOO_LARGE} ELSE {TOO_LARGE}) :
         fresh' = <<refusal>>
    /\ pc' = "replied"
    /\ UNCHANGED <<textVars, userVars, callVars, toolVars, fragments, fi, buffer, full_response,
                   edit_success, visible, edits>>

\* handlers.py 172
CleanedReply(reply) == Strip(StripThinkWs(reply))

\* handlers.py 157-178: the whole handler for an accepted photo or sticker;
\* downloaded: get_file and download_to_memory did not raise
PhotoTurn(replies, cap) ==
    /\ pc = "idle"
    /\ photo_turns < cap
    /\ \E is_sticker \in BOOLEAN, downloaded \in BOOLEAN, reply \in replies,
          o \in ReplyOutcomes :
         LET user_msg_for_hist == IF is_sticker THEN STICKER_MSG ELSE PHOTO_MSG
             cleaned_reply == CleanedReply(reply)
         IN  IF downloaded
             THEN /\ user_data_keys' = user_data_keys \cup {"history"}
                  /\ history' = HistAppend(HistAppend(history,
                                               Entry("user", user_msg_for_hist)),
                                           Entry("assistant", cleaned_reply))
                  /\ photo_turns' = photo_turns + 1
                  /\ fresh' = IF o = "error" THEN <<PHOTO_ERROR>>
                              ELSE reply_safely(cleaned_reply, o)
             ELSE /\ fresh' = <<PHOTO_ERROR>>
                  /\ UNCHANGED <<textVars, user_data_keys, history, photo_turns>>
    /\ pc' = "replied"
    /\ UNCHANGED <<textVars, chat_turns, toolState, callVars, toolVars, fragments, fi, buffer,
                   full_response, edit_success, visible, edits>>

\* handlers.py 194-201: /model shows the current model, or stores the one given
SetModel(models) ==
    /\ pc = "idle"
    /\ \E args \in {<<>>} \cup {<<m>> : m \in models} :
         /\ model' = IF args = <<>> THEN model ELSE args[1]
         /\ user_data_keys' = IF args = <<>> THEN user_data_keys
                               ELSE user_data_keys \cup {"model"}
         /\ fresh' = IF args = <<>> THEN <<MODEL_SHOWN>> ELSE <<MODEL_SET>>
    /\ pc' = "replied"
    /\ UNCHANGED <<textVars, history, chat_turns, photo_turns, todos, seen_news_urls,
                   news_returned, callVars, toolVars, fragments, fi, buffer,
                   full_response, edit_success, visible, edits>>

\* a reset that keeps what the tools stored
Reset_KeepsToolState ==
    /\ pc = "idle"
    /\ user_data_keys' = user_data_keys \ {"history", "model"}
    /\ history' = <<>>
    /\ model' = DEFAULT_MODEL
    /\ chat_turns' = 0 /\ photo_turns' = 0
    /\ fresh' = <<RESET_DONE>>
    /\ pc' = "replied"
    /\ UNCHANGED <<textVars, todos, seen_news_urls, news_returned, callVars, toolVars,
                   fragments, fi, buffer, full_response, edit_success, visible, edits>>

\* handlers.py 203-206: ctx.user_data.clear()
Reset ==
    /\ pc = "idle"
    /\ user_data_keys' = {}
    /\ history' = <<>>
    /\ model' = DEFAULT_MODEL /\ todos' = <<>>
    /\ seen_news_urls' = {} /\ news_returned' = <<>>
    /\ chat_turns' = 0 /\ photo_turns' = 0
    /\ fresh' = <<RESET_DONE>>
    /\ pc' = "replied"
    /\ UNCHANGED <<textVars, callVars, toolVars, fragments, fi, buffer, full_response,
                   edit_success, visible, edits>>

\* ---------------------------------------------------------- specifications

Next ==
    \/ StartChat(UserMsgs, MaxTurns)
    \/ DecisionCall(DecisionTexts)
    \/ DispatchUnregistered
    \/ DispatchSync({API_ERROR})
    \/ DispatchAsync
    \/ DispatchRaise
    \/ Gather
    \/ TaskFinish
    \/ TaskRaise
    \/ GatherReturn
    \/ NoGather
    \/ PresentStart
    \/ GroundingCall(GroundingReplies)
    \/ StreamChunk
    \/ StreamEnd
    \/ FinalEdit
    \/ Remedy
    \/ Store
    \/ Return
    \/ PhotoRefused
    \/ PhotoTurn(PhotoReplies, MaxPhotos)
    \/ Reset

Spec == Init /\ [][Next]_vars

\* long runs over few inputs: the history fills up and wraps
NextHist ==
    \/ StartChat(HistUserMsgs, MaxHistTurns)
    \/ DecisionCall(HistDecisionTexts)
    \/ DispatchSync({API_ERROR})
    \/ DispatchAsync
    \/ DispatchRaise
    \/ Gather
    \/ TaskFinish
    \/ TaskRaise
    \/ GatherReturn
    \/ PresentStart
    \/ GroundingCall(HistGroundingReplies)
    \/ StreamChunk
    \/ StreamEnd
    \/ FinalEdit
    \/ Remedy
    \/ Store
    \/ Return
    \/ PhotoRefused
    \/ PhotoTurn(HistPhotoReplies, MaxHistPhotos)
    \/ Reset

SpecHist == Init /\ [][NextHist]_vars

\* the per-user state: news, todos, model, reset
NextState ==
    \/ StartChat(StateUserMsgs, MaxStateTurns)
    \/ DecisionCall(StateDecisionTexts)
    \/ DispatchSync(NewsFeeds)
    \/ DispatchRaise
    \/ NoGather
    \/ PresentStart
    \/ GroundingCall(StateGroundingReplies)
    \/ StreamChunk
    \/ StreamEnd
    \/ FinalEdit
    \/ Remedy
    \/ Store
    \/ Return
    \/ SetModel(Models)
    \/ Reset

SpecState == Init /\ [][NextState]_vars

\* ------------------------------------------- the text functions on their own

\* bounds on the texts the functions are applied to
MaxText == 4
MaxFrags == 2
MaxChunkText == 21

\* every sequence of at most n elements of A
SeqsUpTo(A, n) == UNION {[1..k -> A] : k \in 0..n}

ExtractAlphabet == {"{", "}", "[", "]", ",", ":", DQ_X, SP}

\* texts handed to extract_json_from_text: every short text over the JSON
\* alphabet, the decision texts, and texts with quotes and markers
ExtractTexts ==
    SeqsUpTo(ExtractAlphabet, MaxText)
    \cup DecisionTexts
    \cup { <<"a", "{", "{", DQ_X, ":", "[", "]", ",", "}", "[", "]", "b">>,
           <<"[", "[", "]", ",", "]">>,
           <<"a", "{", "}", SP, "[", DQ_X, "]", "{", DQ_X, ":", DQ_X, "}">>,
           <<"{", "'", "a", "'", ":", QUOTE, "b", QUOTE, "}">>,
           <<TO, "{", "}", TC, "[", TO, "a", TC, "]", "{", "}">>,
           <<"{", DQ_X, ":", QUOTE, TO, "a", QUOTE, "}", "a", TC>>,
           <<"[", QUOTE, THI, TO, "a", TC, NK, "b", TC, QUOTE, "]">>,
           <<"{", DQ_X, ":", "true", "}", SP, "[", "true", ",", SP, DQ_X, "]">> }

StreamFrags ==
    { <<>>, <<"a">>, <<SP>>, <<TO>>, <<TC>>, <<"a", TO, "b">>, <<"c", TC, SP>>,
      <<THI>>, <<NK>>, Rep("a", CHUNK) }

\* fragment sequences handed to filter_stream
StreamInputs == SeqsUpTo(StreamFrags, MaxFrags)

\* texts handed to the re-chunking: one of each length, no character twice
\* within CHUNK + 1 positions
ChunkTexts ==
    { [k \in 1..n |-> LETTERS[((k - 1) % Len(LETTERS)) + 1]] : n \in 0..MaxChunkText }

InitText ==
    /\ ChatInit
    /\ \E f \in {"extract", "filter", "chunk"} : fn = f
    /\ fn_pc = "run"
    /\ ex_text \in (IF fn = "extract" THEN ExtractTexts ELSE {<<>>})
    /\ ex_i = 1 /\ ex_spans = <<>> /\ ex_result = <<>>
    /\ fs_stream \in (IF fn = "filter" THEN StreamInputs ELSE {<<>>})
    /\ fs_pulled = 0 /\ fs_full = <<>> /\ fs_out = <<>>
    /\ ch_text \in (IF fn = "chunk" THEN ChunkTexts ELSE {<<>>})
    /\ ch_out = <<>>

\* utils.py 178-183: the text the scan runs over
text_to_decode(text) == ReplaceQuotes(StripThink(text))

\* a scan that gives up at the first opening bracket that does not decode
ExtractStep_GiveUp ==
    /\ fn = "extract" /\ fn_pc = "run"
    /\ ex_i <= Len(text_to_decode(ex_text))
    /\ LET t == text_to_decode(ex_text)
           r == RawDecode(t, ex_i)
       IN  IF t[ex_i] \in {"{", "["} /\ r.ok
           THEN /\ ex_spans' = Append(ex_spans, [start |-> ex_i, end |-> r.end])
                /\ ex_i' = r.end
           ELSE /\ ex_i' = IF t[ex_i] \in {"{", "["} THEN Len(t) + 1 ELSE ex_i + 1
                /\ UNCHANGED ex_spans
    /\ UNCHANGED <<chatVars, fn, fn_pc, ex_text, ex_result,
                   fs_stream, fs_pulled, fs_full, fs_out, ch_text, ch_out>>

\* utils.py 189-200: one iteration of the scanning loop
ExtractStep ==
    /\ fn = "extract" /\ fn_pc = "run"
    /\ ex_i <= Len(text_to_decode(ex_text))
    /\ LET t == text_to_decode(ex_text)
           r == RawDecode(t, ex_i)
       IN  IF t[ex_i] \in {"{", "["} /\ r.ok
           THEN /\ ex_spans' = Append(ex_spans, [start |-> ex_i, end |-> r.end])
                /\ ex_i' = r.end
           ELSE /\ ex_i' = ex_i + 1
                /\ UNCHANGED ex_spans
    /\ UNCHANGED <<chatVars, fn, fn_pc, ex_text, ex_result,
                   fs_stream, fs_pulled, fs_full, fs_out, ch_text, ch_out>>

\* utils.py 189, 202-206: the loop is over, the function returns
ExtractReturn ==
    /\ fn = "extract" /\ fn_pc = "run"
    /\ ex_i > Len(text_to_decode(ex_text))
    /\ ex_result' = extract_json_from_text(ex_text)
    /\ fn_pc' = "returned"
    /\ UNCHANGED <<chatVars, fn, ex_text, ex_i, ex_spans,
                   fs_stream, fs_pulled, fs_full, fs_out, ch_text, ch_out>>

\* utils.py 140-141: filter_stream consumes one fragment
FilterPull ==
    /\ fn = "filter" /\ fn_pc = "run"
    /\ fs_pulled < Len(fs_stream)
    /\ fs_full' = fs_full \o fs_stream[fs_pulled + 1]
    /\ fs_pulled' = fs_pulled + 1
    /\ UNCHANGED <<chatVars, fn, fn_pc, ex_text, ex_i, ex_spans, ex_result,
                   fs_stream, fs_out, ch_text, ch_out>>

\* utils.py 145: cleaned_response
Cleaned(full) == Strip(StripThink(full))

\* utils.py 140, 145-151: the wrapped sequence is exhausted; the cleaned text
\* is yielded one fragment at a time
FilterYield ==
    /\ fn = "filter" /\ fn_pc = "run"
    /\ fs_pulled = Len(fs_stream)
    /\ Len(fs_out) * CHUNK < Len(Cleaned(fs_full))
    /\ fs_out' = Append(fs_out, SubSeq(Cleaned(fs_full), Len(fs_out) * CHUNK + 1,
                                       Min((Len(fs_out) + 1) * CHUNK,
                                           Len(Cleaned(fs_full)))))
    /\ UNCHANGED <<chatVars, fn, fn_pc, ex_text, ex_i, ex_spans, ex_result,
                   fs_stream, fs_pulled, fs_full, ch_text, ch_out>>

\* utils.py 146-147, 150: nothing is left to yield
FilterReturn ==
    /\ fn = "filter" /\ fn_pc = "run"
    /\ fs_pulled = Len(fs_stream)
    /\ Len(fs_out) * CHUNK >= Len(Cleaned(fs_full))
    /\ fn_pc' = "returned"
    /\ UNCHANGED <<chatVars, fn, ex_text, ex_i, ex_spans, ex_result,
                   fs_stream, fs_pulled, fs_full, fs_out, ch_text, ch_out>>

\* handlers.py 131, utils.py 149: the text is split into fragments
Rechunk ==
    /\ fn = "chunk" /\ fn_pc = "run"
    /\ ch_out' = Chunks(ch_text)
    /\ fn_pc' = "returned"
    /\ UNCHANGED <<chatVars, fn, ex_text, ex_i, ex_spans, ex_result,
                   fs_stream, fs_pulled, fs_full, fs_out, ch_text>>

NextText ==
    \/ ExtractStep
    \/ ExtractReturn
    \/ FilterPull
    \/ FilterYield
    \/ FilterReturn
    \/ Rechunk

SpecText == InitText /\ [][NextText]_vars

\* ------------------------------------------------------------------ claims

\* the last n entries of s
LastN(s, n) == IF Len(s) <= n THEN s ELSE SubSeq(s, Len(s) - n + 1, Len(s))

\* the presenter has returned to the chat handler
Presented == pc \in {"store", "done"}

\* an edit attempt the presenter catches was rejected
SomeEditRejected == \E k \in 1..Len(edits) : edits[k].outcome = "rejected"

\* C1: if an edit attempt is rejected for a reason other than "content
\* unchanged", no further edit is attempted, and once the presenter has
\* returned exactly one fresh message has been sent, carrying the full text of
\* the whole fragment sequence (or, when that send fails too, an apology).
\* Stated for a non-empty text.
C1_RejectedEditFallsBack ==
    /\ \A k \in 1..Len(edits) : edits[k].outcome = "rejected" => k = Len(edits)
    /\ (Presented /\ SomeEditRejected /\ Concat(fragments) # <<>>)
          => /\ Len(fresh) = 1
             /\ fresh[1] \in {Concat(fragments), APOLOGY_PARSE, APOLOGY_SEND}

\* the recovered list fails the validation of the tool branch
Rejected(calls) ==
    \/ calls = <<>>
    \/ \E i \in 1..Len(calls) : calls[i].kind # "dict" \/ ~calls[i].hasName

\* no tool was executed or scheduled
NoToolRun == ci = 1 /\ tool_results = <<>> /\ tasks_to_run = <<>>

\* C2 as stated: when the recovered tool-call list is empty or holds an item
\* that is no mapping with the key tool_name, no tool runs, no grounding call is
\* issued, and the fragments handed to the presenter concatenate to the
\* decision text with its think sections removed.
C2_FallbackVerbatim ==
    (decision_calls = 1 /\ Rejected(tool_calls))
       => /\ NoToolRun
          /\ grounding_calls = 0
          /\ Concat(fragments) = StripThink(model_response)

\* C2 amended: ... the fragments concatenate to the decision text with its
\* think sections removed and the surrounding whitespace stripped.
C2_FallbackStripped ==
    (decision_calls = 1 /\ Rejected(tool_calls))
       => /\ NoToolRun
          /\ grounding_calls = 0
          /\ Concat(fragments) = Strip(StripThink(model_response))

\* a turn was stored whose list held a valid call and an item without
\* tool_name, and whose decision text was handed over in two fragments
C2_Witness ==
    /\ pc = "done"
    /\ Len(tool_calls) = 2 /\ tool_calls[1].hasName /\ ~tool_calls[2].hasName
    /\ Len(fragments) = 2 /\ fi = 2

\* the indexes i of calls, in order, whose tool is (is not) a coroutine function
RECURSIVE IndexesFrom(_, _, _)
IndexesFrom(calls, i, async) ==
    IF i > Len(calls) THEN <<>>
    ELSE IF IsCoroutineFunction(calls[i].name) = async
         THEN <<i>> \o IndexesFrom(calls, i + 1, async)
    ELSE IndexesFrom(calls, i + 1, async)

\* dispatch is over and nothing raised in it
Dispatched == pc \in {"present", "stream", "final", "remedy", "store", "done"}

AllRegistered(calls) ==
    /\ calls # <<>>
    /\ \A i \in 1..Len(calls) :
          calls[i].kind = "dict" /\ calls[i].hasName /\ calls[i].name \in TOOL_REGISTRY

\* C3: K registered calls, none raising, give exactly K result entries: the
\* synchronous ones in call order, then the asynchronous ones in call order,
\* each paired with the call that produced it.
C3_DispatchComplete ==
    (Dispatched /\ AllRegistered(tool_calls))
       => LET order == IndexesFrom(tool_calls, 1, FALSE) \o IndexesFrom(tool_calls, 1, TRUE)
          IN  /\ Len(tool_results) = Len(tool_calls)
              /\ \A k \in 1..Len(tool_results) :
                    /\ tool_results[k].tool_call = order[k]
                    /\ tool_results[k].result.call = order[k]
                    /\ tool_results[k].result.tool = tool_calls[order[k]].name

\* three calls were dispatched, async first, two of them the same async tool
C3_Witness ==
    /\ pc = "present"
    /\ Len(tool_calls) = 3 /\ Len(tool_results) = 3
    /\ IsCoroutineFunction(tool_calls[1].name) /\ tool_calls[1].name = tool_calls[3].name
    /\ tool_results[1].tool_call = 2

\* a tool of this turn has started
SomeToolStarted ==
    \/ tool_results # <<>>
    \/ \E k \in 1..Len(tasks_to_run) : tasks_to_run[k].state # "created"

\* C4: the decision call completes before any tool starts, every tool has
\* finished before the grounding call is issued, and a turn issues exactly one
\* decision call and at most one grounding call.
C4_TurnOrdering ==
    /\ decision_calls <= 1 /\ grounding_calls <= 1
    /\ SomeToolStarted => decision_calls = 1
    /\ grounding_calls = 1 =>
          /\ decision_calls = 1
          /\ ci > Len(tool_calls)
          /\ \A k \in 1..Len(tasks_to_run) : tasks_to_run[k].state = "done"
          /\ pc \notin {"decision", "dispatch", "gather"}
    /\ pc = "done" => decision_calls = 1

\* a turn with two async calls and a sync call reached Done after grounding
C4_Witness ==
    /\ pc = "done" /\ grounding_calls = 1
    /\ Len(tasks_to_run) = 2 /\ Len(tool_results) = 3

\* C5: after N > MAX_ROUNDS completed chat turns without a reset the history
\* holds 2*MAX_ROUNDS entries, those of the most recent MAX_ROUNDS turns in
\* their order: the turn that makes N exceed MAX_ROUNDS, and every later one,
\* leaves the last 2*MAX_ROUNDS entries of the old history followed by its own.
C5_HistoryBound ==
    [][(pc = "store" /\ pc' = "done" /\ chat_turns' > MAX_ROUNDS)
          => /\ Len(history') = 2 * MAX_ROUNDS
             /\ history' = LastN(history \o LastN(history', 2), 2 * MAX_ROUNDS)]_vars

\* C6: the history never holds more than 2*MAX_ROUNDS entries.
C6_HistoryLength == Len(history) <= 2 * MAX_ROUNDS

\* a chat turn was stored into a full history that also holds a photo turn
C6_Witness ==
    /\ pc = "done"
    /\ Len(history) = MAX_ROUNDS
    /\ chat_turns + photo_turns > MAX_ROUNDS \div 2
    /\ photo_turns > 0

C8_EmptyAnswerShown ==
    (pc = "done" /\ Concat(fragments) = <<>> /\ visible # NoMessage)
       => /\ history[Len(history)].content = FALLBACK
          /\ visible = FALLBACK \/ (fresh # <<>> /\ fresh[Len(fresh)] = FALLBACK)

\* C9: once the fragment sequence has completed, the final edit is issued
\* if and only if the text the outgoing message shows differs from the buffer.
C9_FinalEditIffVisibleDiffers ==
    [][(pc = "final" /\ pc' # "final")
          => ((Len(edits') > Len(edits)) <=> (visible # buffer))]_vars

\* C10: the step that takes a chat turn to Done appends the user entry holding
\* the incoming message and then the assistant entry holding the presenter's
\* text, or the fallback string when that text is empty (the oldest entries
\* leave a full history); no other step of a chat turn changes the history.
C10_TurnAppendsTwo ==
    [][/\ (pc = "store" /\ pc' = "done")
            => history' = LastN(history \o
                                  <<Entry("user", user_msg),
                                    Entry("assistant",
                                          IF buffer = <<>> THEN FALLBACK ELSE buffer)>>,
                                MAX_ROUNDS)
       /\ (pc \notin {"idle", "store"} \/ pc' = "decision") => history' = history]_vars

\* a turn whose placeholder was refused stored the fallback string into a
\* history that was already full
C10_Witness ==
    /\ pc = "done"
    /\ buffer = <<>> /\ ~edit_success
    /\ chat_turns + photo_turns > MAX_ROUNDS \div 2
    /\ history[Len(history)] = Entry("assistant", FALLBACK)
    /\ history[Len(history) - 1] = Entry("user", user_msg)

\* the indexes i of calls, in order, whose tool is registered and is (is not)
\* a coroutine function
RECURSIVE RegisteredFrom(_, _, _)
RegisteredFrom(calls, i, async) ==
    IF i > Len(calls) THEN <<>>
    ELSE IF calls[i].name \in TOOL_REGISTRY /\ IsCoroutineFunction(calls[i].name) = async
         THEN <<i>> \o RegisteredFrom(calls, i + 1, async)
    ELSE RegisteredFrom(calls, i + 1, async)

\* the call the dispatch loop stands at names a tool (by a string, or another
\* hashable value) that the registry does not hold
AtUnregistered ==
    /\ pc = "dispatch" /\ ci <= Len(tool_calls)
    /\ tool_calls[ci].name \notin TOOL_REGISTRY \cup {"<unhashable>"}

\* C11: a call whose tool_name is not in the registry produces no result entry
\* and starts nothing, and the loop goes on to the next call; once dispatch is
\* over the results of a validated batch are exactly those of its registered calls
\* (synchronous ones first, each in call order); and the step that follows the
\* last call leads to the grounding step (directly, or through the gather of
\* the asynchronous calls), whatever the number of results.
C11_UnregisteredSkipped ==
    /\ []((Dispatched /\ ~Rejected(tool_calls)) =>
            LET order == RegisteredFrom(tool_calls, 1, FALSE)
                            \o RegisteredFrom(tool_calls, 1, TRUE)
            IN  /\ Len(tool_results) = Len(order)
                /\ \A k \in 1..Len(order) : tool_results[k].tool_call = order[k])
    /\ [][/\ AtUnregistered =>
                /\ pc' = "dispatch" /\ ci' = ci + 1
                /\ tool_results' = tool_results /\ tasks_to_run' = tasks_to_run
          /\ (pc = "dispatch" /\ ci > Len(tool_calls)) => pc' \in {"gather", "present"}
          /\ (pc = "gather" /\ pc' \notin {"gather", "raised"}) => pc' = "present"]_vars

\* a batch of two unregistered and two registered calls was dispatched, and
\* the grounding call was issued with the two results
C11_Witness ==
    /\ grounding_calls = 1
    /\ Len(tool_calls) = 4 /\ Len(tool_results) = 2
    /\ tool_calls[1].name \notin TOOL_REGISTRY /\ tool_calls[3].name \notin TOOL_REGISTRY
    /\ tool_results[1].tool_call = 4 /\ tool_results[2].tool_call = 2

\* an asynchronous call of the batch has started executing
SomeTaskStarted == \E k \in 1..Len(tasks_to_run) : tasks_to_run[k].state # "created"

\* C12 as stated: the asynchronous calls do not wait for the synchronous ones:
\* when the loop stands at a synchronous call and asynchronous calls were made
\* before it, one of them has started or is free to start at that moment.
C12_AsyncDoesNotWait ==
    (/\ pc = "dispatch" /\ ci <= Len(tool_calls)
     /\ tool_calls[ci].name \in TOOL_REGISTRY /\ ~IsCoroutineFunction(tool_calls[ci].name)
     /\ tasks_to_run # <<>>)
       => (SomeTaskStarted \/ ENABLED Gather)

\* C12 amended: no asynchronous call starts while the loop runs; when one has
\* started, the loop has handled every call and every registered synchronous
\* call of the batch has produced its result.
C12_AsyncAfterSync ==
    /\ pc = "dispatch" => ~SomeTaskStarted
    /\ SomeTaskStarted =>
          /\ ci > Len(tool_calls)
          /\ Len(tool_results) >= Len(RegisteredFrom(tool_calls, 1, FALSE))
          /\ \A k \in 1..Len(RegisteredFrom(tool_calls, 1, FALSE)) :
                tool_results[k].tool_call = RegisteredFrom(tool_calls, 1, FALSE)[k]

\* in a batch async, sync, async the two coroutines run side by side after the
\* synchronous call has returned: one is done, the other still running
C12_Witness ==
    /\ pc = "gather"
    /\ Len(tool_calls) = 3 /\ IsCoroutineFunction(tool_calls[1].name)
    /\ ~IsCoroutineFunction(tool_calls[2].name)
    /\ Len(tool_results) = 1 /\ tool_results[1].tool_call = 2
    /\ Len(tasks_to_run) = 2
    /\ tasks_to_run[1].state = "running" /\ tasks_to_run[2].state = "done"

\* filter_stream was applied on its own and has returned
Filtered == fn = "filter" /\ fn_pc = "returned"

\* C13 as stated: filter_stream yields nothing before it has consumed its
\* whole input, and what it yields concatenates to the concatenation of its
\* input with every think section removed.
C13_FilterRemovesThink ==
    /\ (fn = "filter" /\ fs_out # <<>>) => fs_pulled = Len(fs_stream)
    /\ Filtered => Concat(fs_out) = StripThink(Concat(fs_stream))

\* C13 amended: ... with every think section removed and the leading and
\* trailing whitespace stripped; the markers of a section may lie in different
\* input fragments.  The fragments are those the chat handler is handed.
C13_FilterRemovesThinkAndStrips ==
    /\ (fn = "filter" /\ fs_out # <<>>) => fs_pulled = Len(fs_stream)
    /\ Filtered =>
          /\ Concat(fs_out) = Strip(StripThink(Concat(fs_stream)))
          /\ fs_out = filter_stream(fs_stream)

\* a section opened in one fragment and closed in the next was removed,
\* together with the whitespace left at the end
C13_Witness ==
    /\ Filtered
    /\ fs_stream = << <<"a", TO, "b">>, <<"c", TC, SP>> >>
    /\ fs_out = << <<"a">> >>

\* an opening bracket stands at t[p] and a value decodes from it
Decodes(t, p) == t[p] \in {"{", "["} /\ RawDecode(t, p).ok

\* the slices of t the spans delimit
SpanTexts(t, spans) == [k \in 1..Len(spans) |-> SubSeq(t, spans[k].start, spans[k].end - 1)]

\* C14: the scan goes left to right over the whole text; the slices it collects
\* are in order and do not overlap; each starts at an opening bracket and is
\* what decodes there; and every opening bracket passed so far from which a
\* value decodes starts a slice or lies inside one, whatever failed to decode
\* around it.  The scan ends only at the end of the text.
C14_ScanCollectsEveryFragment ==
    fn = "extract" =>
       LET t == text_to_decode(ex_text)
       IN  /\ ex_i <= Len(t) + 1
           /\ fn_pc = "returned" => ex_i = Len(t) + 1
           /\ \A k \in 1..Len(ex_spans) :
                 /\ Decodes(t, ex_spans[k].start)
                 /\ ex_spans[k].end = RawDecode(t, ex_spans[k].start).end
                 /\ ex_spans[k].start < ex_spans[k].end /\ ex_spans[k].end <= ex_i
                 /\ k > 1 => ex_spans[k - 1].end <= ex_spans[k].start
           /\ \A p \in 1..(ex_i - 1) :
                 Decodes(t, p) =>
                    \E k \in 1..Len(ex_spans) :
                       ex_spans[k].start <= p /\ p < ex_spans[k].end
           /\ fn_pc = "returned" => ScanSlices(t, 1, <<>>) = SpanTexts(t, ex_spans)

\* two fragments were collected, the first of them inside a bracketed region
\* that does not decode, at either of its two opening brackets
C14_Witness ==
    /\ fn = "extract" /\ fn_pc = "returned"
    /\ Len(ex_spans) = 2
    /\ ex_spans[1].start = 6
    /\ ~Decodes(text_to_decode(ex_text), 2) /\ ~Decodes(text_to_decode(ex_text), 3)
    /\ ex_spans[2].start > ex_spans[1].end

\* extract_json_from_text was applied on its own and has returned
Extracted == fn = "extract" /\ fn_pc = "returned"

C16_ExtractIdempotent ==
    (Extracted /\ Len(ex_spans) = 1) => extract_json_from_text(ex_result) = ex_result

\* the re-chunking was applied on its own and has returned
Rechunked == fn = "chunk" /\ fn_pc = "returned"

\* C17: the fragments a text is split into concatenate, in order, to the text;
\* every fragment but the last holds CHUNK characters and the last holds
\* between 1 and CHUNK; the empty text gives no fragment.
C17_ChunkJoinIdentity ==
    Rechunked =>
       /\ Concat(ch_out) = ch_text
       /\ Len(ch_out) = (Len(ch_text) + CHUNK - 1) \div CHUNK
       /\ \A k \in 1..Len(ch_out) :
             /\ Len(ch_out[k]) \in 1..CHUNK
             /\ k < Len(ch_out) => Len(ch_out[k]) = CHUNK

\* a text of two full fragments and one more character was split in three
C17_Witness ==
    /\ Rechunked
    /\ Len(ch_text) = 2 * CHUNK + 1
    /\ Len(ch_out) = 3 /\ Len(ch_out[3]) = 1

\* the step is the /reset handler
IsResetStep == pc = "idle" /\ fresh' = <<RESET_DONE>>

\* C18: the URL lists that the get_news_headlines calls of a user returned
\* since the last reset share no URL, pairwise, and none holds a URL twice;
\* every URL returned is in seen_news_urls; and no step but a reset takes a
\* URL out of seen_news_urls.
C18_NewsNeverRepeats ==
    /\ [](/\ \A a, b \in 1..Len(news_returned) :
               a < b => Range(news_returned[a]) \cap Range(news_returned[b]) = {}
          /\ \A a \in 1..Len(news_returned) :
               /\ Range(news_returned[a]) \subseteq seen_news_urls
               /\ Cardinality(Range(news_returned[a])) = Len(news_returned[a]))
    /\ [][~IsResetStep => seen_news_urls \subseteq seen_news_urls']_vars

\* three calls without a reset: the first returned an article, the second one
\* another article, the third found nothing new
C18_Witness ==
    /\ Len(news_returned) = 3
    /\ Len(news_returned[1]) = 1 /\ Len(news_returned[2]) = 1 /\ news_returned[3] = <<>>
    /\ seen_news_urls = NewsUrls

\* s is the beginning of t
IsPrefix(s, t) == Len(s) <= Len(t) /\ SubSeq(t, 1, Len(s)) = s

\* C19: a reset leaves no key in the user's state and every field at its
\* default; no other step removes a key, a todo or a seen URL, or empties the
\* history;
\* while no turn was stored since the last reset the decision prompt of a chat
\* turn holds the default persona and the new user message and nothing else;
\* and a chat turn creates the history key on arrival, nothing more.
C19_ResetClearsAll ==
    /\ [][IsResetStep =>
             /\ user_data_keys' = {} /\ history' = <<>>
             /\ model' = DEFAULT_MODEL /\ todos' = <<>> /\ seen_news_urls' = {}]_vars
    /\ [][~IsResetStep =>
             /\ user_data_keys \subseteq user_data_keys'
             /\ history # <<>> => history' # <<>>
             /\ IsPrefix(todos, todos')
             /\ seen_news_urls \subseteq seen_news_urls'
             /\ "model" \in user_data_keys => model' # DEFAULT_MODEL]_vars
    /\ []((pc = "decision" /\ chat_turns = 0 /\ photo_turns = 0) =>
             first_step_msgs = <<Entry("system", DEFAULT_PERSONA), Entry("user", user_msg)>>)
    /\ [][(pc = "idle" /\ pc' = "decision") =>
             user_data_keys' = user_data_keys \cup {"history"}]_vars

\* the reset has just answered and the user's state is empty
C19_Witness ==
    /\ pc = "replied" /\ fresh = <<RESET_DONE>>
    /\ user_data_keys = {} /\ history = <<>> /\ todos = <<>> /\ seen_news_urls = {}
    /\ model = DEFAULT_MODEL /\ chat_turns = 0

\* every edit attempt of the turn was accepted or answered "not modified"
EditsAcceptedOrUnchanged ==
    \A k \in 1..Len(edits) : edits[k].outcome \in {"ok", "not_modified"}

\* C20: an edit answered "Message is not modified", throttled or final, does
\* not mark the edit path as failed and triggers no remedial send: a turn with
\* a non-empty answer whose placeholder was delivered and whose edits were all
\* accepted or answered that way ends with the answer shown once, in the
\* edited message, and no fresh message.
C20_NotModifiedIgnored ==
    (Presented /\ visible # NoMessage /\ Concat(fragments) # <<>>
       /\ EditsAcceptedOrUnchanged)
       => /\ edit_success
          /\ fresh = <<>>
          /\ visible = Concat(fragments)


\* a tool call of this turn raised: an exception left the serial loop, or an
\* awaitable of the gathered batch raised
ToolRaised ==
    \/ pc = "raised" /\ ValidToolCalls(tool_calls) /\ ci <= Len(tool_calls)
    \/ \E k \in 1..Len(tasks_to_run) : tasks_to_run[k].state = "raised"

\* C21: once a tool call has raised (in the serial loop or inside the gathered
\* batch) the handler is left by the exception: the message list has received
\* no result message, no grounding call is issued, no message was sent or
\* edited, and the turn ends with the history it started with and no turn
\* counted.
C21_ToolRaiseFailsFast ==
    /\ [](ToolRaised =>
            /\ pc = "raised"
            /\ grounding_calls = 0
            /\ visible = NoMessage /\ fresh = <<>> /\ edits = <<>>
            /\ first_step_msgs = <<Entry("system", DEFAULT_PERSONA)>> \o history
                                    \o <<Entry("user", user_msg)>>)
    /\ [][ToolRaised => /\ pc' = "idle"
                        /\ history' = history
                        /\ chat_turns' = chat_turns]_vars

\* an awaitable raised while another was still running, after a synchronous
\* tool had produced its result, in a turn that started with a history
C21_Witness ==
    /\ pc = "raised"
    /\ history # <<>>
    /\ tool_results # <<>>
    /\ \E k \in 1..Len(tasks_to_run) : tasks_to_run[k].state = "raised"
    /\ \E k \in 1..Len(tasks_to_run) : tasks_to_run[k].state = "running"


\* the message list handed to the decision call (handlers.py 32), as long as
\* the turn has not been stored
DecisionMessages ==
    <<Entry("system", DEFAULT_PERSONA)>> \o history \o <<Entry("user", user_msg)>>

\* the message list is the decision call's followed by one (assistant, tool)
\* pair per result entry, in result order
GroundingMessageList ==
    LET base == Len(DecisionMessages)
    IN  /\ Len(first_step_msgs) = base + 2 * Len(tool_results)
        /\ SubSeq(first_step_msgs, 1, base) = DecisionMessages
        /\ \A k \in 1..Len(tool_results) :
              /\ first_step_msgs[base + 2 * k - 1] =
                    Entry("assistant", <<"(call)", LETTERS[tool_results[k].tool_call]>>)
              /\ first_step_msgs[base + 2 * k] =
                    Entry("tool", <<"(result)", tool_results[k].result.tool,
                                    LETTERS[tool_results[k].result.call]>>)

\* C22: a turn whose recovered tool calls passed validation issues exactly one
\* grounding call (so it has issued it once the presenter has returned), and the
\* message list of that call is the decision call's followed by one
\* (assistant, tool) pair per result entry, in result order; with every tool
\* unregistered the list equals the decision call's.
C22_OneGroundingCall ==
    /\ (Presented /\ ValidToolCalls(tool_calls)) => grounding_calls = 1
    /\ (grounding_calls = 1 /\ pc # "done") => GroundingMessageList


\* C23: in every state the history has even length and its entries alternate
\* user, assistant, starting with a user entry: no eviction leaves an
\* assistant entry at the head or separates the two entries of one turn.
C23_HistoryAlternates ==
    /\ Len(history) % 2 = 0
    /\ \A k \in 1..Len(history) :
          history[k].role = (IF k % 2 = 1 THEN "user" ELSE "assistant")

\* a full history that has lost the entries of two turns or more, a photo
\* turn's entries still inside
C23_Witness ==
    /\ Len(history) = MAX_ROUNDS
    /\ chat_turns + photo_turns >= MAX_ROUNDS \div 2 + 2
    /\ history[1].role = "user"
    /\ \E k \in 2..Len(history) : history[k - 1].content \in {PHOTO_MSG, STICKER_MSG}

=============================================================================
